---- MODULE Spec2Model ----
(***************************************************************************)
(* Verify-backend: the drafts of the "AI image detector" backend.          *)
(*                                                                         *)
(* The repository holds five drafts of POST /scan and two of POST /webhook.*)
(* A deployment runs one draft; `draft` says which.                        *)
(*   "memory"  src/server.js 5-94 (= src/unnamed/part_000 1-94)            *)
(*   "gate"    src/server.js 96-161                                        *)
(*   "count"   src/server.js 163-299                                       *)
(*   "credits" src/server.js 301-594                                       *)
(*   "fetch"   src/unnamed/part_000 97-145 (= src/unnamed/part_001 30-49)  *)
(*                                                                         *)
(* A handler is a JavaScript async function: the code between two awaits   *)
(* runs without interruption, and every awaited call to the store is one   *)
(* step, taken when the store applies it.  The store is assumed to answer  *)
(* every query with the table's contents; the error results the code       *)
(* branches on (countError, insertError, the webhook's insert error, the   *)
(* fetch draft's catch) are inputs.  A scan record is kept as a count per  *)
(* user: its score, is_ai and timestamp are written and never read back.   *)
(***************************************************************************)
EXTENDS Integers, Sequences, FiniteSets, TLC

\* ---------------------------------------------------------------- bounds
\* Requests per run; request ids are arrival numbers.
NumProcs == 2
\* One-off payments credited per run.
MaxPayments == 2

Procs == 1..NumProcs
Users == {"u1", "u2"}
Emails == {"a@x"}
Drafts == {"memory", "gate", "count", "credits", "fetch"}
\* Active subscription rows a user may hold: no code of the repository writes
\* the subscriptions table.
InitSubscriptionRows == {0, 1}

\* ---------------------------------------------------------------- state
VARIABLES
    draft,          \* which draft is deployed
    serial,         \* the server is driven one /scan at a time, and the driver
                    \* notes in `before` what each request found
    users,          \* memory draft: the `users` object, userId -> record
    subscriptions,  \* table subscriptions: rows with status "active", per user_id
    credits,        \* table credits: the `credits` column of the rows of a user_id
    scans,          \* table scans: number of rows per user_id
    pc,             \* per request: where its handler is
    reqUser,        \* per request: user.id / userId
    via,            \* per request: the branch that admitted it, or "none"
    detected,       \* per request: the detection call has been made
    status,         \* per request: HTTP status sent, 0 before
    credRead,       \* per request: recordScan's `credits` (<< >> is null)
    before,         \* per request: the user's allowances when it arrived
    whSigOk,        \* last delivery: constructEvent would accept it
    whStatus,       \* last delivery: HTTP status sent
    paid            \* per user: one-off payments whose insert succeeded

vars == <<draft, serial, users, subscriptions, credits, scans, pc, reqUser, via,
          detected, status, credRead, before, whSigOk, whStatus, paid>>

dbVars == <<subscriptions, credits, scans>>
cfgVars == <<draft, serial>>
whVars == <<whSigOk, whStatus, paid>>

NoUser == [email |-> "", scans |-> 0, tier |-> "none", videoUsed |-> 0]
NoSnap == [scans |-> 0, balance |-> 0, paid |-> 0, tier |-> ""]

\* ---------------------------------------------------------------- store
RECURSIVE SumRows(_)
SumRows(rows) ==
    IF rows = << >> THEN 0 ELSE Head(rows) + SumRows(Tail(rows))

\* The credits a user holds in the store: the total over the user's rows.
Balance(u) == SumRows(credits[u])

\* .single(): the row when exactly one matches, otherwise data is null.
Single(rows) == IF Len(rows) = 1 THEN rows ELSE << >>

\* .insert({ user_id, credits: 1 }): a new row.
InsertCreditRow(rows) == Append(rows, 1)

\* .update({ credits: c }).eq("user_id", u): every row of the user.
UpdateCreditRows(rows, c) == [i \in 1..Len(rows) |-> c]

RECURSIVE SumOver(_, _)
SumOver(f, S) ==
    IF S = {} THEN 0
    ELSE LET x == CHOOSE y \in S : TRUE IN f[x] + SumOver(f, S \ {x})

\* One-off payments credited so far.
TotalPaid == SumOver(paid, Users)

\* The scans the deployed draft counts against a user.
Usage(u) == IF draft = "memory" THEN users[u].scans ELSE scans[u]

\* A user's allowances and tier, and the payments credited so far.
Snap(u) ==
    [scans |-> Usage(u), balance |-> Balance(u), paid |-> TotalPaid,
     tier |-> users[u].tier]

\* ---------------------------------------------------------------- requests
\* A handler returns: the response is sent and the request is over.
Respond(p, code) ==
    /\ status' = [status EXCEPT ![p] = code]
    /\ pc' = [pc EXCEPT ![p] = "done"]

\* The handler goes on to its next await.
Goto(p, label) ==
    /\ pc' = [pc EXCEPT ![p] = label]
    /\ UNCHANGED status

\* No /scan request is being handled.
Quiet == \A q \in Procs : pc[q] \in {"start", "done"}

\* Requests arrive in the order of their ids.
Arrives(p) ==
    /\ pc[p] = "start"
    /\ \A q \in Procs : q < p => pc[q] # "start"
    /\ serial => Quiet

\* The entitlement check lets the request through, on the allowance `how`.
Admit(p, how) == via' = [via EXCEPT ![p] = how]

\* The request is known to come from user u.
Identify(p, u) ==
    /\ reqUser' = [reqUser EXCEPT ![p] = u]
    /\ before' = [before EXCEPT ![p] = IF serial THEN Snap(u) ELSE NoSnap]

\* -------------------------------------------------- credits draft: /scan
\* checkUserAccess: `if (subscription)` on the .single() of the active rows.
CheckUserAccess_HasSubscription(n) == n = 1

\* checkUserAccess: `credits && credits.credits > 0` on the .single() row.
CheckUserAccess_HasCredits(rows) ==
    Single(rows) # << >> /\ Single(rows)[1] > 0

CheckUserAccess_FreeScanOffByOne(count) == count <= 1

\* checkUserAccess: `return count === 0`.
CheckUserAccess_FreeScan(count) == count = 0

Scan_CallsDetectAIFirst(hasAccess) == TRUE

\* /scan: detectAI is called only past `if (!hasAccess) return`.
Scan_CallsDetectAI(hasAccess) == hasAccess

RecordScan_HasCreditsNoFloor(row) == row # << >>

\* recordScan: `credits && credits.credits > 0` on the row it has just read.
RecordScan_HasCredits(row) == row # << >> /\ row[1] > 0

\* recordScan: the value written, `credits.credits - 1`.
RecordScan_NewCredits(row) == row[1] - 1

\* /scan 459-474: the auth header, the token, the uploaded file.
Scan_Auth(p) ==
    /\ draft = "credits"
    /\ Arrives(p)
    /\ UNCHANGED <<cfgVars, users, dbVars, via, detected, credRead, whVars>>
    /\ \E outcome \in {"unauthenticated", "nofile", "ok"} :
         IF outcome = "unauthenticated"
         THEN /\ UNCHANGED <<reqUser, before>>
              /\ Respond(p, 401)
         ELSE \E u \in Users :
                /\ Identify(p, u)
                /\ IF outcome = "nofile"
                   THEN Respond(p, 400)
                   ELSE Goto(p, "checkSub")

\* /scan 477-484: checkUserAccess has returned hasAccess.
Scan_Decide(p, hasAccess, how) ==
    /\ Admit(p, IF hasAccess THEN how ELSE "none")
    /\ detected' = [detected EXCEPT ![p] = Scan_CallsDetectAI(hasAccess)]
    /\ IF hasAccess THEN Goto(p, "detectAI") ELSE Respond(p, 403)

\* checkUserAccess 506-515: the subscriptions query.
CheckUserAccess_Subscription(p) ==
    /\ draft = "credits"
    /\ pc[p] = "checkSub"
    /\ UNCHANGED <<cfgVars, users, dbVars, reqUser, credRead, before, whVars>>
    /\ IF CheckUserAccess_HasSubscription(subscriptions[reqUser[p]])
       THEN Scan_Decide(p, TRUE, "subscription")
       ELSE Goto(p, "checkCredits") /\ UNCHANGED <<via, detected>>

\* checkUserAccess 517-526: the credits query.
CheckUserAccess_Credits(p) ==
    /\ draft = "credits"
    /\ pc[p] = "checkCredits"
    /\ UNCHANGED <<cfgVars, users, dbVars, reqUser, credRead, before, whVars>>
    /\ IF CheckUserAccess_HasCredits(credits[reqUser[p]])
       THEN Scan_Decide(p, TRUE, "credit")
       ELSE Goto(p, "checkCount") /\ UNCHANGED <<via, detected>>

\* checkUserAccess 528-534: the scans count.
CheckUserAccess_Count(p) ==
    /\ draft = "credits"
    /\ pc[p] = "checkCount"
    /\ UNCHANGED <<cfgVars, users, dbVars, reqUser, credRead, before, whVars>>
    /\ Scan_Decide(p, CheckUserAccess_FreeScan(scans[reqUser[p]]), "free")

RecordScan_InsertIfNone(count) == IF count = 0 THEN 1 ELSE count

\* recordScan 539-545: .insert() into scans, whatever the table holds by now.
RecordScan_InsertRow(count) == count + 1

\* /scan 484-488, recordScan 539-545: detectAI resolves, the scan row is inserted.
RecordScan_Insert(p) ==
    /\ draft = "credits"
    /\ pc[p] = "detectAI"
    /\ scans' = [scans EXCEPT ![reqUser[p]] = RecordScan_InsertRow(@)]
    /\ Goto(p, "readCredits")
    /\ UNCHANGED <<cfgVars, users, subscriptions, credits, reqUser, via, detected,
                   credRead, before, whVars>>

\* recordScan 548-554: the credits row is read again.
RecordScan_ReadCredits(p) ==
    /\ draft = "credits"
    /\ pc[p] = "readCredits"
    /\ credRead' = [credRead EXCEPT ![p] = Single(credits[reqUser[p]])]
    /\ UNCHANGED <<cfgVars, users, dbVars, reqUser, via, detected, before, whVars>>
    /\ IF RecordScan_HasCredits(credRead'[p])
       THEN Goto(p, "updateCredits")
       ELSE Respond(p, 200)

\* recordScan 555-558, /scan 490-494: the update, then the response.
RecordScan_Update(p) ==
    /\ draft = "credits"
    /\ pc[p] = "updateCredits"
    /\ credits' = [credits EXCEPT ![reqUser[p]] =
                      UpdateCreditRows(@, RecordScan_NewCredits(credRead[p]))]
    /\ UNCHANGED <<cfgVars, users, subscriptions, scans, reqUser, via, detected,
                   credRead, before, whVars>>
    /\ Respond(p, 200)

\* ------------------------------------------------ credits draft: /webhook
ConstructEvent_Unverified(sigOk) == TRUE

\* stripe.webhooks.constructEvent returns the event or throws.
ConstructEvent(sigOk) == sigOk

EventTypes == {"checkout.session.completed", "other"}
Modes == {"payment", "subscription"}

\* /webhook 427-449: the event is dispatched on its type and the session's
\* mode; an insert that returns an error is logged.
Webhook_Dispatch ==
    /\ whStatus' = 200
    /\ \E type \in EventTypes :
         IF type # "checkout.session.completed"
         THEN UNCHANGED <<credits, paid>>
         ELSE \E mode \in Modes :
           IF mode # "payment"
           THEN UNCHANGED <<credits, paid>>
           ELSE \E u \in Users, insertOk \in BOOLEAN :
             IF insertOk
             THEN /\ TotalPaid < MaxPayments
                  /\ credits' = [credits EXCEPT ![u] = InsertCreditRow(@)]
                  /\ paid' = [paid EXCEPT ![u] = @ + 1]
             ELSE UNCHANGED <<credits, paid>>

\* /webhook 412-454.
Webhook ==
    /\ draft = "credits"
    /\ \E sigOk \in BOOLEAN :
         /\ whSigOk' = sigOk
         /\ IF ~ConstructEvent(sigOk)
            THEN /\ whStatus' = 400
                 /\ UNCHANGED <<credits, paid>>
            ELSE Webhook_Dispatch
    /\ UNCHANGED <<cfgVars, users, subscriptions, scans, pc, reqUser, via, detected,
                   status, credRead, before>>

\* ------------------------------------------------------- memory draft
VideoLimit == 20

\* /webhook 78-86: the tier an amount_total buys; "" when it buys none.
Mem_TierForAmount(amount) ==
    CASE amount = 199 -> "single"
      [] amount = 700 -> "pro"
      [] amount = 1900 -> "power"
      [] OTHER -> ""

Amounts == {199, 700, 1900, 0}

\* /scan 42: the free limit.
Mem_Paywalled(user) == user.tier = "free" /\ user.scans >= 1

\* A limit test that lets the request at the limit through.
Mem_VideoLimitExceeded(user) == user.videoUsed > VideoLimit

\* /scan 50: the video limit.
Mem_VideoLimitReached(user) == user.videoUsed >= VideoLimit

\* /signup 23-32: uuid() is an id not yet in `users`.
Mem_Signup ==
    /\ draft = "memory"
    /\ \E id \in Users, email \in Emails :
         /\ users[id] = NoUser
         /\ users' = [users EXCEPT ![id] =
               [email |-> email, scans |-> 0, tier |-> "free", videoUsed |-> 0]]
    /\ UNCHANGED <<cfgVars, dbVars, pc, reqUser, via, detected, status, credRead,
                   before, whVars>>

\* /scan 35-60: up to the await of replicate.run, which the checks precede.
Mem_Scan(p) ==
    /\ draft = "memory"
    /\ Arrives(p)
    /\ UNCHANGED <<cfgVars, dbVars, credRead, whVars>>
    /\ \E userId \in Users, type \in {"image", "video"} :
         LET user == users[userId] IN
         /\ Identify(p, userId)
         /\ IF user = NoUser
            THEN /\ UNCHANGED <<users, via, detected>>
                 /\ Respond(p, 401)
            ELSE IF Mem_Paywalled(user)
            THEN /\ UNCHANGED <<users, via, detected>>
                 /\ Respond(p, 402)
            ELSE IF type = "video" /\ user.tier # "power"
            THEN /\ UNCHANGED <<users, via, detected>>
                 /\ Respond(p, 403)
            ELSE IF type = "video" /\ Mem_VideoLimitReached(user)
            THEN /\ UNCHANGED <<users, via, detected>>
                 /\ Respond(p, 402)
            ELSE /\ users' = [users EXCEPT ![userId].videoUsed =
                                 IF type = "video" THEN @ + 1 ELSE @]
                 /\ Admit(p, user.tier)
                 /\ detected' = [detected EXCEPT ![p] = TRUE]
                 /\ Goto(p, "replicate")

\* /scan 62-63: replicate.run has resolved.
Mem_ScanResume(p) ==
    /\ draft = "memory"
    /\ pc[p] = "replicate"
    /\ users' = [users EXCEPT ![reqUser[p]].scans = @ + 1]
    /\ UNCHANGED <<cfgVars, dbVars, reqUser, via, detected, credRead, before, whVars>>
    /\ Respond(p, 200)

\* /webhook 68-92: no signature is checked.
Mem_Webhook ==
    /\ draft = "memory"
    /\ whStatus' = 200
    /\ \E sigOk \in BOOLEAN, type \in EventTypes, email \in Emails,
          amount \in Amounts :
         /\ whSigOk' = sigOk
         /\ users' = [id \in Users |->
               IF /\ type = "checkout.session.completed"
                  /\ users[id] # NoUser
                  /\ users[id].email = email
                  /\ Mem_TierForAmount(amount) # ""
               THEN [users[id] EXCEPT !.tier = Mem_TierForAmount(amount)]
               ELSE users[id]]
    /\ UNCHANGED <<cfgVars, dbVars, pc, reqUser, via, detected, status, credRead,
                   before, paid>>

\* --------------------------------------------------------- gate draft
\* /scan 141: `count >= 1`.
Gate_FreeScanUsed(count) == count >= 1

\* /scan 118-134: the auth header, the token, the uploaded file.
Gate_Auth(p) ==
    /\ draft = "gate"
    /\ Arrives(p)
    /\ UNCHANGED <<cfgVars, users, dbVars, via, detected, credRead, whVars>>
    /\ \E outcome \in {"unauthenticated", "nofile", "ok"} :
         IF outcome = "unauthenticated"
         THEN /\ UNCHANGED <<reqUser, before>>
              /\ Respond(p, 401)
         ELSE \E u \in Users :
                /\ Identify(p, u)
                /\ IF outcome = "nofile"
                   THEN Respond(p, 400)
                   ELSE Goto(p, "count")

\* /scan 136-143: the scans count.
Gate_Check(p) ==
    /\ draft = "gate"
    /\ pc[p] = "count"
    /\ UNCHANGED <<cfgVars, users, dbVars, reqUser, detected, credRead, before, whVars>>
    /\ IF Gate_FreeScanUsed(scans[reqUser[p]])
       THEN UNCHANGED via /\ Respond(p, 403)
       ELSE Admit(p, "free") /\ Goto(p, "insert")

\* /scan 145-149: the insert; this draft calls no detection.
Gate_Insert(p) ==
    /\ draft = "gate"
    /\ pc[p] = "insert"
    /\ scans' = [scans EXCEPT ![reqUser[p]] = @ + 1]
    /\ UNCHANGED <<cfgVars, users, subscriptions, credits, reqUser, via, detected,
                   credRead, before, whVars>>
    /\ Respond(p, 200)

\* -------------------------------------------------------- count draft
\* /scan 223: `count >= 1`.
Count_FreeScanUsed(count) == count >= 1

\* /scan 196-211: the auth header and the token.
Count_Auth(p) ==
    /\ draft = "count"
    /\ Arrives(p)
    /\ UNCHANGED <<cfgVars, users, dbVars, via, detected, credRead, whVars>>
    /\ \E ok \in BOOLEAN :
         IF ~ok
         THEN /\ UNCHANGED <<reqUser, before>>
              /\ Respond(p, 401)
         ELSE \E u \in Users :
                /\ Identify(p, u)
                /\ Goto(p, "count")

\* /scan 213-233: the scans count, the file, the call of detectAI.
Count_Check(p) ==
    /\ draft = "count"
    /\ pc[p] = "count"
    /\ UNCHANGED <<cfgVars, users, dbVars, reqUser, credRead, before, whVars>>
    /\ \E countError \in BOOLEAN, hasFile \in BOOLEAN :
         IF countError
         THEN UNCHANGED <<via, detected>> /\ Respond(p, 500)
         ELSE IF Count_FreeScanUsed(scans[reqUser[p]])
         THEN UNCHANGED <<via, detected>> /\ Respond(p, 403)
         ELSE IF ~hasFile
         THEN UNCHANGED <<via, detected>> /\ Respond(p, 400)
         ELSE /\ Admit(p, "free")
              /\ detected' = [detected EXCEPT ![p] = TRUE]
              /\ Goto(p, "detectAI")

\* /scan 233-254: detectAI resolves, the insert, the response.
Count_Insert(p) ==
    /\ draft = "count"
    /\ pc[p] = "detectAI"
    /\ UNCHANGED <<cfgVars, users, subscriptions, credits, reqUser, via, detected,
                   credRead, before, whVars>>
    /\ \E insertError \in BOOLEAN :
         IF insertError
         THEN UNCHANGED scans /\ Respond(p, 500)
         ELSE /\ scans' = [scans EXCEPT ![reqUser[p]] = @ + 1]
              /\ Respond(p, 200)

\* -------------------------------------------------------- fetch draft
\* /scan 109: `scans.length >= 1`.
Fetch_Paywalled(count) == count >= 1

\* /scan 99-124: the body's userId, the select, the fetch of the prediction.
Fetch_Check(p) ==
    /\ draft = "fetch"
    /\ Arrives(p)
    /\ UNCHANGED <<cfgVars, users, dbVars, credRead, whVars>>
    /\ \E u \in Users :
         /\ Identify(p, u)
         /\ IF Fetch_Paywalled(scans[u])
            THEN UNCHANGED <<via, detected>> /\ Respond(p, 403)
            ELSE /\ Admit(p, "free")
                 /\ detected' = [detected EXCEPT ![p] = TRUE]
                 /\ Goto(p, "fetch")

\* /scan 126-144: the prediction, the insert, the response; a prediction
\* without output throws into the catch.
Fetch_Insert(p) ==
    /\ draft = "fetch"
    /\ pc[p] = "fetch"
    /\ UNCHANGED <<cfgVars, users, subscriptions, credits, reqUser, via, detected,
                   credRead, before, whVars>>
    /\ \E hasOutput \in BOOLEAN :
         IF ~hasOutput
         THEN UNCHANGED scans /\ Respond(p, 500)
         ELSE /\ scans' = [scans EXCEPT ![reqUser[p]] = @ + 1]
              /\ Respond(p, 200)

\* ------------------------------------------------------ specification
NoRequests ==
    /\ pc = [p \in Procs |-> "start"]
    /\ reqUser = [p \in Procs |-> ""]
    /\ via = [p \in Procs |-> "none"]
    /\ detected = [p \in Procs |-> FALSE]
    /\ status = [p \in Procs |-> 0]
    /\ credRead = [p \in Procs |-> << >>]
    /\ before = [p \in Procs |-> NoSnap]
    /\ whSigOk = TRUE
    /\ whStatus = 0
    /\ paid = [u \in Users |-> 0]

\* A fresh deployment: `users` is empty, no scan is recorded, no credit bought.
FreshStore ==
    /\ users = [u \in Users |-> NoUser]
    /\ scans = [u \in Users |-> 0]
    /\ credits = [u \in Users |-> << >>]
    /\ subscriptions \in IF draft = "credits" THEN [Users -> InitSubscriptionRows]
                         ELSE {[u \in Users |-> 0]}

Init ==
    /\ draft \in Drafts
    /\ serial = FALSE
    /\ FreshStore
    /\ NoRequests

\* A request arrives: its handler runs to its first await.
Arrival(p) ==
    \/ Scan_Auth(p)
    \/ Gate_Auth(p)
    \/ Count_Auth(p)
    \/ Fetch_Check(p)
    \/ Mem_Scan(p)

\* An awaited call of a handler completes.
Resume(p) ==
    \/ CheckUserAccess_Subscription(p)
    \/ CheckUserAccess_Credits(p)
    \/ CheckUserAccess_Count(p)
    \/ RecordScan_Insert(p)
    \/ RecordScan_ReadCredits(p)
    \/ RecordScan_Update(p)
    \/ Gate_Check(p)
    \/ Gate_Insert(p)
    \/ Count_Check(p)
    \/ Count_Insert(p)
    \/ Fetch_Insert(p)
    \/ Mem_ScanResume(p)

Next ==
    \/ \E p \in Procs : Arrival(p)
    \/ \E p \in Procs : Resume(p)
    \/ Webhook
    \/ Mem_Signup
    \/ Mem_Webhook

\* The server under concurrent requests.
Spec == Init /\ [][Next]_vars

\* The server when every /scan request is answered before the next arrives;
\* webhooks are delivered at any time.
SeqInit ==
    /\ draft \in Drafts
    /\ serial = TRUE
    /\ FreshStore
    /\ NoRequests

SeqSpec == SeqInit /\ [][Next]_vars

\* The boundary cases of the entitlement decision: the server with the
\* store, or `users`, as earlier traffic and earlier purchases have left it.
BoundaryUsage == {0, 1, 2, 24, 25, 26, 99, 100, 101, 499, 500, 501}
FreeUsage == {0, 1, 2}
MemTierUsage ==
    {<<"free", 0>>, <<"free", 1>>, <<"free", 2>>, <<"single", 1>>,
     <<"pro", 99>>, <<"pro", 100>>, <<"pro", 101>>,
     <<"power", 499>>, <<"power", 500>>, <<"power", 501>>}

EvalInit ==
    /\ draft \in Drafts
    /\ serial = TRUE
    /\ users \in IF draft = "memory"
                 THEN {[u \in Users |->
                          IF u = "u1"
                          THEN [email |-> "a@x", scans |-> tu[2], tier |-> tu[1],
                                videoUsed |-> 0]
                          ELSE NoUser] : tu \in MemTierUsage}
                 ELSE {[u \in Users |-> NoUser]}
    /\ scans \in IF draft = "memory" THEN {[u \in Users |-> 0]}
                 ELSE {[u \in Users |-> IF u = "u1" THEN n ELSE 0] :
                          n \in IF draft = "credits" THEN BoundaryUsage
                                ELSE FreeUsage}
    /\ credits = [u \in Users |-> << >>]
    /\ subscriptions \in IF draft = "credits" THEN [Users -> InitSubscriptionRows]
                         ELSE {[u \in Users |-> 0]}
    /\ NoRequests

EvalSpec == EvalInit /\ [][Next]_vars

\* The video counter next to its limit: a "power" user whose earlier video
\* scans, all answered, have left videoUsed at most VideoLimit, with requests
\* that overlap.
VideoUsage == {VideoLimit - 2, VideoLimit - 1, VideoLimit}

VideoInit ==
    /\ draft \in Drafts
    /\ serial = FALSE
    /\ users \in IF draft = "memory"
                 THEN {[u \in Users |->
                          IF u = "u1"
                          THEN [email |-> "a@x", scans |-> n, tier |-> "power",
                                videoUsed |-> n]
                          ELSE NoUser] : n \in VideoUsage}
                 ELSE {[u \in Users |-> NoUser]}
    /\ scans = [u \in Users |-> 0]
    /\ credits = [u \in Users |-> << >>]
    /\ subscriptions \in IF draft = "credits" THEN [Users -> InitSubscriptionRows]
                         ELSE {[u \in Users |-> 0]}
    /\ NoRequests

VideoSpec == VideoInit /\ [][Next]_vars

\* ------------------------------------------------------------- claims
\* Request p has been answered, and nothing has touched the store since it
\* arrived but p itself: no later request has arrived, no payment was credited.
\* (On the serial server no other request was being handled either.)
Alone(p) ==
    /\ serial
    /\ pc[p] = "done"
    /\ reqUser[p] \in Users
    /\ \A q \in Procs : q > p => pc[q] = "start"
    /\ before[p].paid = TotalPaid

ChangedByOne(x, y) == x - y = 1 \/ y - x = 1

\* The balance checkUserAccess and recordScan read for u: the .single() row's
\* credits, nothing when there is no such row.
ReadBalance(u) ==
    IF Single(credits[u]) = << >> THEN 0 ELSE Single(credits[u])[1]

\* C1: in the credits draft, a successful /scan changes exactly one of the
\* user's scan count and credit balance, by exactly 1: never both, never neither.
C1_ExactlyOneCharge ==
    \A p \in Procs :
      (draft = "credits" /\ Alone(p) /\ status[p] = 200) =>
        LET u == reqUser[p] IN
        \/ /\ ChangedByOne(scans[u], before[p].scans)
           /\ Balance(u) = before[p].balance
        \/ /\ scans[u] = before[p].scans
           /\ ChangedByOne(Balance(u), before[p].balance)

\* C2: a successful /scan of a user with an active subscription and credits
\* leaves the credit balance unchanged; only a scan admitted on the credit
\* balance lowers it.
C2_SubscriptionBeforeCredits ==
    \A p \in Procs :
      (draft = "credits" /\ Alone(p) /\ status[p] = 200) =>
        LET u == reqUser[p] IN
        /\ (subscriptions[u] >= 1 /\ before[p].balance > 0)
              => Balance(u) = before[p].balance
        /\ Balance(u) < before[p].balance => via[p] = "credit"

\* C3: no credits row of any user ever holds a negative number, whatever the
\* interleaving of /scan requests and payment webhooks.
C3_CreditsNeverNegative ==
    \A u \in Users :
      /\ \A i \in 1..Len(credits[u]) : credits[u][i] >= 0
      /\ Balance(u) >= 0

\* C3's case: two concurrent requests of one user have both read the user's
\* single credit and both written it back decremented.
C3_Witness ==
    \E p, q \in Procs :
      /\ p # q
      /\ reqUser[p] = reqUser[q]
      /\ pc[p] = "done" /\ pc[q] = "done"
      /\ credRead[p] = <<1>> /\ credRead[q] = <<1>>
      /\ paid[reqUser[p]] = 1
      /\ credits[reqUser[p]] = <<0>>

\* C4: a webhook delivery whose signature fails is answered 400 and changes no
\* table; the credits table is written only by a delivery that verified.
C4_BadSignatureChangesNothing ==
    [][(Webhook /\ ~whSigOk') =>
          /\ whStatus' = 400
          /\ UNCHANGED <<credits, subscriptions, scans, users, paid>>]_vars

\* C4's case: a delivery with a bad signature has been answered while a user
\* holds a credit.
C4_Witness ==
    /\ draft = "credits"
    /\ ~whSigOk
    /\ whStatus = 400
    /\ \E u \in Users : credits[u] = <<1>>

\* C5: after k credited one-off payments for U and no scan, the balance that
\* checkUserAccess and recordScan read for U is k.
C5_EachPaymentAddsOneCredit ==
    (draft = "credits" /\ \A p \in Procs : pc[p] = "start") =>
      \A u \in Users : ReadBalance(u) = paid[u]

\* The requests of u that got the entitlement verdict and its response.
Verdicts(u) ==
    {p \in Procs : pc[p] = "done" /\ reqUser[p] = u /\ status[p] \in {200, 403}}

\* C6: for a user with no subscription and no credits whose requests come one
\* after the other, a request is denied with 403 exactly when an earlier one
\* was allowed: the first is allowed, every later one denied; and the scan
\* records of a user are those of the allowed requests: a denied one adds none.
C6_FreeScanOnce ==
    (draft \in {"credits", "count", "gate"}) =>
      \A u \in Users :
        /\ (subscriptions[u] = 0 /\ paid[u] = 0) =>
              \A p \in Verdicts(u) :
                status[p] = 403 <=>
                  \E q \in Verdicts(u) : q < p /\ status[q] = 200
        /\ Quiet => scans[u] = Cardinality({p \in Verdicts(u) : status[p] = 200})

\* C6's case: the first request of such a user was allowed, the second denied.
C6_Witness ==
    /\ draft = "credits"
    /\ \E u \in Users :
         /\ subscriptions[u] = 0 /\ paid[u] = 0
         /\ reqUser[1] = u /\ status[1] = 200
         /\ reqUser[2] = u /\ status[2] = 403
         /\ scans[u] = 1

\* C7: a user without subscription, with a prior scan record and a credit
\* balance N, is allowed exactly when N > 0, and N - 1 credits remain; with
\* N = 0 the scan is denied and the balance stays 0.
C7_CreditFallback ==
    \A p \in Procs :
      (/\ draft = "credits" /\ Alone(p) /\ status[p] \in {200, 403}
       /\ subscriptions[reqUser[p]] = 0
       /\ before[p].scans >= 1) =>
        LET u == reqUser[p]
            N == before[p].balance
        IN /\ status[p] = 200 <=> N > 0
           /\ status[p] = 200 => Balance(u) = N - 1
           /\ N = 0 => Balance(u) = 0

\* The monthly limit of a plan; an unknown plan has the free limit.
PlanLimit(plan) ==
    CASE plan = "starter" -> 25
      [] plan = "pro" -> 100
      [] plan = "power" -> 500
      [] OTHER -> 1

\* The plans the request's user may be on: the tier of the memory draft; in the
\* credits draft, where no plan type is stored, some paid plan for a user with
\* an active subscription; free otherwise.
PlansOf(p) ==
    IF draft = "memory" THEN {before[p].tier} \cap {"free", "pro", "power"}
    ELSE IF draft = "credits" /\ subscriptions[reqUser[p]] >= 1
    THEN {"starter", "pro", "power"}
    ELSE {"free"}

\* The responses that carry the verdict on the scan limit: in the memory
\* draft the paywall answers 402 (403 refuses a video to a tier without video,
\* and 402 is the paywall's as long as the video limit is not reached).
LimitVerdicts ==
    IF draft = "memory" THEN {200, 402} ELSE {200, 403}

\* C8: a user without credits is allowed to scan exactly when the usage is
\* under the limit of the plan: denied at the limit of every plan the user may
\* be on, allowed under the limit of every such plan.
C8_PlanLimitEnforced ==
    \A p \in Procs :
      (/\ Alone(p) /\ status[p] \in LimitVerdicts
       /\ PlansOf(p) # {}
       /\ users[reqUser[p]].videoUsed < VideoLimit
       /\ before[p].balance = 0) =>
        LET usage == before[p].scans IN
        /\ (\A plan \in PlansOf(p) : usage >= PlanLimit(plan)) => status[p] # 200
        /\ (\A plan \in PlansOf(p) : usage < PlanLimit(plan)) => status[p] = 200

\* The entitlement check of p's request has returned allowed.
Admitted(p) == via[p] # "none"

\* C9: in every draft, a request answered 401, 402 or 403 has made no
\* detection call, and a request that has made one had been admitted by its
\* entitlement check.
C9_DetectionAfterEntitlement ==
    \A p \in Procs :
      /\ status[p] \in {401, 402, 403} => ~detected[p]
      /\ detected[p] => Admitted(p)

\* C9's case: one request was denied, another admitted and its detection run.
C9_Witness ==
    \E p, q \in Procs :
      /\ status[p] = 403 /\ ~detected[p]
      /\ status[q] = 200 /\ detected[q]

\* The requests of u whose scan has been recorded.
Recorded(u) ==
    {p \in Procs :
       /\ reqUser[p] = u
       /\ \/ pc[p] \in {"readCredits", "updateCredits"}
          \/ pc[p] = "done" /\ status[p] = 200}

\* C10: the check and the write are not atomic: every admitted request records
\* its scan whatever has been written since its check, so two requests of one
\* user that both read "under limit" leave two records.
C10_EveryAdmittedScanIsRecorded ==
    \A u \in Users : Usage(u) = Cardinality(Recorded(u))

\* C10's case: a user with no subscription and no credits, with no scan at
\* first, has two requests allowed on the free scan and two scan records.
C10_Witness ==
    /\ draft = "credits"
    /\ \E u \in Users :
         /\ subscriptions[u] = 0 /\ paid[u] = 0
         /\ \E p, q \in Procs :
              /\ p # q
              /\ reqUser[p] = u /\ reqUser[q] = u
              /\ status[p] = 200 /\ status[q] = 200
              /\ via[p] = "free" /\ via[q] = "free"
         /\ scans[u] = 2

\* C11: in the in-memory draft a user's videoUsed never exceeds the limit of
\* 20, whatever the interleaving of that user's video requests: the test and
\* the increment are one step, and a step changes videoUsed only by adding 1
\* to a value below the limit (scans, in contrast, grows after the await).
C11_VideoUsedWithinLimit ==
    [][draft = "memory" =>
         \A u \in Users :
           /\ users[u] # NoUser => users[u].videoUsed <= VideoLimit
           /\ (users[u] # NoUser /\ users'[u].videoUsed # users[u].videoUsed) =>
                 /\ users[u].videoUsed < VideoLimit
                 /\ users'[u].videoUsed = users[u].videoUsed + 1
                 /\ users'[u].videoUsed <= VideoLimit
                 /\ users'[u].scans = users[u].scans]_vars

\* C11's case: two video requests of one user are in flight together, both
\* past the test, and the counter stands at the limit while scans has not
\* moved yet.
C11_Witness ==
    /\ draft = "memory"
    /\ \E u \in Users :
         /\ users[u] # NoUser
         /\ users[u].videoUsed = VideoLimit
         /\ users[u].scans = VideoLimit - 2
         /\ \E p, q \in Procs :
              /\ p # q
              /\ reqUser[p] = u /\ reqUser[q] = u
              /\ pc[p] = "replicate" /\ pc[q] = "replicate"

====
